---- MODULE Spec2Model ----
(***************************************************************************)
(* Model of src/app.py, the customer purchase dashboard: a Streamlit       *)
(* script that is re-run from top to bottom on every widget interaction.   *)
(*                                                                         *)
(* Representation                                                          *)
(*   - a DataFrame is a sequence of row records; a row keeps the index     *)
(*     label read_csv gave it (field idx), as pandas does through masks;   *)
(*   - a nullable cell is a sequence of length 0 (NaN / NaT) or 1;         *)
(*   - a timestamp is a number of ticks, MkTs(year, month, day, tick);     *)
(*   - a country or a product is a natural number (its rank in sorted      *)
(*     order), UnitedKingdom being the country the script names;           *)
(*   - a unit price is a whole number of pence divisible by 5, so that     *)
(*     UnitPrice * 0.6 is a whole number too;                              *)
(*   - a mean or a regression value is an exact fraction <<num, den>>.     *)
(***************************************************************************)
EXTENDS Integers, Sequences, FiniteSets

\* ------------------------------------------------------------------ bounds

\* Rows of a small input file.
MaxRows == 2
\* Rows (= countries = products) of a wide input file minus TopN.
WideExtra == 1
\* Number of wide input files.
WidePatterns == 2
\* A multiselect with more options than this is exercised on a few selections only.
MaxEnumOptions == 2
\* Resolution of the time of day.
TicksPerDay == 2

\* ------------------------------------------------------- program constants

\* head(10), lines 100, 110, 114, 137.
TopN == 10
\* default=["United Kingdom"], line 34.
UnitedKingdom == 1
\* default=df["Description"].unique()[:5], line 39.
DefaultProducts == 5
\* st.slider(min_value=6, max_value=36, value=12, step=3), line 144.
SliderMin == 6
SliderMax == 36
SliderDefault == 12
SliderStep == 3

\* ------------------------------------------------------------- sequences

Min(a, b) == IF a <= b THEN a ELSE b

RECURSIVE SumTo(_, _)
SumTo(s, n) == IF n = 0 THEN 0 ELSE s[n] + SumTo(s, n - 1)
\* Series.sum().
SumSeq(s) == SumTo(s, Len(s))

RECURSIVE SetToSeq(_)
\* The elements of a finite set of integers in ascending order.
SetToSeq(S) ==
    IF S = {} THEN <<>>
    ELSE LET m == CHOOSE x \in S : \A y \in S : x <= y
         IN  <<m>> \o SetToSeq(S \ {m})

Range(s) == {s[i] : i \in DOMAIN s}

\* Series.unique(): the distinct values in order of first appearance.
RECURSIVE Unique(_)
Unique(s) ==
    IF s = <<>> THEN <<>>
    ELSE LET r == Unique(SubSeq(s, 1, Len(s) - 1))
             x == s[Len(s)]
         IN  IF x \in Range(r) THEN r ELSE Append(r, x)

Column(frame, col) == [i \in DOMAIN frame |-> frame[i][col]]

\* DataFrame.head(n) / Series.head(n).
HeadN(s, n) == SubSeq(s, 1, Min(n, Len(s)))

\* ------------------------------------------------------------- timestamps

MkTs(y, m, d, t) == (((y * 12 + (m - 1)) * 31 + (d - 1)) * TicksPerDay) + t
TsDay(ts) == ts \div TicksPerDay
TsMonthIndex(ts) == TsDay(ts) \div 31
TsYear(ts) == TsMonthIndex(ts) \div 12
TsMonth(ts) == (TsMonthIndex(ts) % 12) + 1

NaT == <<>>

\* pd.to_datetime(text, errors="coerce") on one cell.
ParseDate(text) ==
    CASE text = "2011-11-30 08:26" -> <<MkTs(2011, 11, 30, 1)>>
      [] text = "2011-12-09 00:00" -> <<MkTs(2011, 12, 9, 0)>>
      [] text = "2011-12-09 12:50" -> <<MkTs(2011, 12, 9, 1)>>
      [] text = "2012-01-04 10:00" -> <<MkTs(2012, 1, 4, 1)>>
      [] OTHER -> NaT

\* Series.dt.to_period("M") on one cell: the month's ordinal, NaT for NaT.
ToPeriodM(date) == IF date = NaT THEN NaT ELSE <<TsMonthIndex(date[1])>>
PeriodYear(p) == p \div 12
PeriodMonth(p) == (p % 12) + 1
\* Period -> str "YYYY-MM" -> str.replace("-", "") -> int, lines 148.
PeriodToInt(p) == PeriodYear(p) * 100 + PeriodMonth(p)

\* A date_input value: datetime -> datetime.date (the day number).
ToDate(ts) == TsDay(ts)
\* pd.to_datetime(datetime.date): midnight of that day.
ToDatetime(day) == day * TicksPerDay

\* ---------------------------------------------------------------- frames

\* df[col] = value, on one row.
WithCol(row, col, v) ==
    [f \in (DOMAIN row) \cup {col} |-> IF f = col THEN v ELSE row[f]]

\* df[mask]: the rows whose mask entry is true, in order, index labels kept.
BoolIndex(frame, mask) ==
    LET kept == SetToSeq({ i \in DOMAIN frame : mask[i] })
    IN  [k \in DOMAIN kept |-> frame[kept[k]]]

\* mask & mask.
MaskAnd(a, b) == [i \in DOMAIN a |-> a[i] /\ b[i]]

\* Series.isin(values).
IsIn(series, values) == [i \in DOMAIN series |-> series[i] \in values]

\* -------------------------------------------------------------- data.csv

RawRow(no, desc, qty, date, price, cust, country) ==
    [InvoiceNo |-> no, Description |-> desc, Quantity |-> qty, InvoiceDate |-> date,
     UnitPrice |-> price, CustomerID |-> cust, Country |-> country]

\* The rows small input files are made of: sales in two countries and three
\* months, one dated midnight and one dated later on the same last day, a row
\* whose date does not parse, a row without customer, a return (negative
\* quantity), a free item (price 0), and a repeated line.
\* Every row has a Description and a Country.
RowPool ==
    << RawRow(536365, 1, 2, "2011-11-30 08:26", 10, <<17850>>, UnitedKingdom),
       RawRow(581587, 2, 1, "2011-12-09 12:50", 5, <<12680>>, UnitedKingdom),
       RawRow(581500, 1, 3, "2011-12-09 00:00", 5, <<17850>>, UnitedKingdom),
       RawRow(581600, 1, 4, "2012-01-04 10:00", 10, <<12583>>, 2),
       RawRow(536370, 2, 5, "31/31/2011 08:45", 5, <<12680>>, 2),
       RawRow(536414, 2, 6, "2011-11-30 08:26", 10, <<>>, UnitedKingdom),
       RawRow(536379, 1, -1, "2011-11-30 08:26", 10, <<17850>>, UnitedKingdom),
       RawRow(536380, 2, 2, "2011-12-09 12:50", 0, <<12583>>, 2),
       RawRow(536365, 1, 2, "2011-11-30 08:26", 10, <<17850>>, UnitedKingdom) >>

\* The small input files: the rows of RowPool at up to MaxRows positions, in order.
SmallCsvs ==
    { [i \in 1..Len(pick) |-> RowPool[pick[i]]] :
        pick \in { SetToSeq(S) : S \in { T \in SUBSET (1..Len(RowPool)) : Cardinality(T) <= MaxRows } } }

\* A wide input file: one valid row per country and product, more of both than
\* TopN, with quantities and prices following pattern k, the last one sold
\* later on the last day; then rows of RowPool (an earlier month, no parseable
\* date, no customer, a return, a free item) and one more product for the
\* first country.
WideCsv(k) ==
    [i \in 1..(TopN + WideExtra) |->
        RawRow(540000 + i, i, 1 + ((i * k) % (4 * k - 1)),
               IF i = TopN + WideExtra THEN "2011-12-09 12:50" ELSE "2011-12-09 00:00",
               5 * (1 + ((i * (k + 1)) % 2)), <<12000 + (i % 3)>>, i)]
    \o << RowPool[1], RowPool[5], RowPool[6], RowPool[7], RowPool[8],
          RawRow(581588, TopN + WideExtra + 1, 2, "2011-12-09 00:00", 5, <<12680>>,
                 UnitedKingdom) >>

WideCsvs == { WideCsv(k) : k \in 1..WidePatterns }

Csvs == SmallCsvs \cup WideCsvs

\* ------------------------------------------------------------ load_data

\* pd.read_csv: the rows get the index labels 0, 1, 2, ...
ReadCsv(file) == [i \in DOMAIN file |-> WithCol(file[i], "idx", i - 1)]

\* df["InvoiceDate"] = pd.to_datetime(df["InvoiceDate"], errors="coerce")
ParseDates(frame) ==
    [i \in DOMAIN frame |-> [frame[i] EXCEPT !.InvoiceDate = ParseDate(@)]]

\* df.dropna(): a null in any column drops the row.
DropNa_AnyColumn(frame) ==
    BoolIndex(frame, [i \in DOMAIN frame |->
                         frame[i].CustomerID # <<>> /\ frame[i].InvoiceDate # <<>>])

\* df.dropna(subset=["CustomerID"])
DropNaCustomer(frame) ==
    BoolIndex(frame, [i \in DOMAIN frame |-> frame[i].CustomerID # <<>>])

\* The mask with UnitPrice >= 0 in place of UnitPrice > 0.
PositiveMask_NonNegativePrice(frame) ==
    MaskAnd([i \in DOMAIN frame |-> frame[i].Quantity > 0],
            [i \in DOMAIN frame |-> frame[i].UnitPrice >= 0])

\* (df["Quantity"] > 0) & (df["UnitPrice"] > 0)
PositiveMask(frame) ==
    MaskAnd([i \in DOMAIN frame |-> frame[i].Quantity > 0],
            [i \in DOMAIN frame |-> frame[i].UnitPrice > 0])

\* df["YearMonth"] = df["InvoiceDate"].dt.to_period("M")
AddYearMonth(frame) ==
    [i \in DOMAIN frame |-> WithCol(frame[i], "YearMonth", ToPeriodM(frame[i].InvoiceDate))]

\* The body of load_data.
LoadDataBody(file) ==
    LET df1 == ParseDates(ReadCsv(file))
        df2 == DropNaCustomer(df1)
        df3 == BoolIndex(df2, PositiveMask(df2))
    IN  AddYearMonth(df3)

\* ------------------------------------------------------------ aggregation

\* The columns whose cells may be null (NaN, NaT).
Nullable == {"CustomerID", "InvoiceDate", "YearMonth"}

\* A cell as a nullable cell.
Cell(row, col) == IF col \in Nullable THEN row[col] ELSE <<row[col]>>

\* The non-null values of a column.
NotNull(frame, col) ==
    { Cell(frame[i], col)[1] : i \in { j \in DOMAIN frame : Cell(frame[j], col) # <<>> } }

\* The rows of a group.
RowsWhere(frame, col, v) ==
    BoolIndex(frame, [i \in DOMAIN frame |-> Cell(frame[i], col) = <<v>>])

\* The keys of df.groupby(col): the non-null values, ascending.
GroupKeys(frame, col) == SetToSeq(NotNull(frame, col))

\* The mask of the rows of a group.
InGroup(frame, col, v) == [i \in DOMAIN frame |-> Cell(frame[i], col) = <<v>>]

\* The sum of a column over the rows of a mask.
MaskedSum(frame, mask, val) ==
    SumSeq([i \in DOMAIN frame |-> IF mask[i] THEN frame[i][val] ELSE 0])

\* The number of rows of a mask.
MaskedCount(mask) == Cardinality({ i \in DOMAIN mask : mask[i] })

\* df.groupby(key)[val].sum(): one entry per key.
GroupSum(frame, key, val) ==
    LET keys == GroupKeys(frame, key)
    IN  [k \in DOMAIN keys |->
            [key |-> keys[k], num |-> MaskedSum(frame, InGroup(frame, key, keys[k]), val),
             den |-> 1]]

\* df.groupby(key)[val].mean(): the mean as the fraction num / den.
GroupMean(frame, key, val) ==
    LET keys == GroupKeys(frame, key)
    IN  [k \in DOMAIN keys |->
            [key |-> keys[k], num |-> MaskedSum(frame, InGroup(frame, key, keys[k]), val),
             den |-> MaskedCount(InGroup(frame, key, keys[k]))]]

\* a < b on the values of two entries.
Less(a, b) == a.num * b.den < b.num * a.den

Reverse(s) == [i \in DOMAIN s |-> s[Len(s) + 1 - i]]

\* Insertion of x behind the entries that are not greater than it.
RECURSIVE InsertSorted(_, _)
InsertSorted(sorted, x) ==
    IF sorted = <<>> THEN <<x>>
    ELSE IF Less(x, sorted[Len(sorted)])
         THEN Append(InsertSorted(SubSeq(sorted, 1, Len(sorted) - 1), x), sorted[Len(sorted)])
         ELSE Append(sorted, x)

\* argsort on few elements: insertion sort, ascending.
RECURSIVE SortAsc(_)
SortAsc(s) ==
    IF s = <<>> THEN <<>>
    ELSE InsertSorted(SortAsc(SubSeq(s, 1, Len(s) - 1)), s[Len(s)])

\* sort_values(ascending=False): pandas reverses the values, sorts them
\* ascending and reverses the result.
SortValuesDesc(s) == Reverse(SortAsc(Reverse(s)))

\* ----------------------------------------------------------- the widgets

\* df["Country"].unique(), df["Description"].unique()
CountryOptions(frame) == Unique(Column(frame, "Country"))
ProductOptions(frame) == Unique(Column(frame, "Description"))

\* default=df["Description"].unique()[:5]
DefaultProductSelection(frame) == Range(HeadN(ProductOptions(frame), DefaultProducts))

\* df["InvoiceDate"].min() / .max(): NaT is skipped, NaT when nothing is left.
MinDate(frame) ==
    LET S == NotNull(frame, "InvoiceDate")
    IN  IF S = {} THEN NaT ELSE <<CHOOSE x \in S : \A y \in S : x <= y>>
MaxDate(frame) ==
    LET S == NotNull(frame, "InvoiceDate")
    IN  IF S = {} THEN NaT ELSE <<CHOOSE x \in S : \A y \in S : x >= y>>

\* The value st.date_input hands back for a datetime: its date; NaT stays null.
DateOf(date) == IF date = NaT THEN NaT ELSE <<ToDate(date[1])>>

\* The values of the slider.
SliderValues == { v \in SliderMin..SliderMax : (v - SliderMin) % SliderStep = 0 }

\* ------------------------------------------------------------ the filter

\* df["InvoiceDate"] >= pd.to_datetime(start_date); a comparison with NaT is False.
FromMask(frame, start) ==
    [i \in DOMAIN frame |->
        /\ frame[i].InvoiceDate # NaT
        /\ start # NaT
        /\ frame[i].InvoiceDate[1] >= ToDatetime(start[1])]

\* df["InvoiceDate"] <= pd.to_datetime(end_date)
UntilMask(frame, end) ==
    [i \in DOMAIN frame |->
        /\ frame[i].InvoiceDate # NaT
        /\ end # NaT
        /\ frame[i].InvoiceDate[1] <= ToDatetime(end[1])]

\* The mask with | in place of the first &.
FilterMask_CountryOrProduct(frame, countries, products, start, end) ==
    MaskAnd([i \in DOMAIN frame |->
                IsIn(Column(frame, "Country"), countries)[i]
                \/ IsIn(Column(frame, "Description"), products)[i]],
            MaskAnd(FromMask(frame, start), UntilMask(frame, end)))

\* The mask of lines 52 to 55.
FilterMask(frame, countries, products, start, end) ==
    MaskAnd(MaskAnd(IsIn(Column(frame, "Country"), countries),
                    IsIn(Column(frame, "Description"), products)),
            MaskAnd(FromMask(frame, start), UntilMask(frame, end)))

ApplyFilters(frame, countries, products, start, end) ==
    BoolIndex(frame, FilterMask(frame, countries, products, start, end))

\* ------------------------------------------------------------ the script

\* (filtered_df["Quantity"] * filtered_df["UnitPrice"]).sum(), line 62.
Revenue(frame) == SumSeq([i \in DOMAIN frame |-> frame[i].Quantity * frame[i].UnitPrice])

\* The lambda of line 75 summing Quantity alone.
MaskedRevenue_QuantityOnly(frame, mask) ==
    SumSeq([i \in DOMAIN frame |-> IF mask[i] THEN frame[i].Quantity ELSE 0])

\* The same over the rows of a mask: what the lambda of line 75 gets is one group.
MaskedRevenue(frame, mask) ==
    SumSeq([i \in DOMAIN frame |-> IF mask[i] THEN frame[i].Quantity * frame[i].UnitPrice ELSE 0])

\* filtered_df["CustomerID"].nunique(), line 64.
NUnique(frame, col) == Cardinality(NotNull(frame, col))

\* Lines 74 to 79, on a filtered set that is not empty.
RevenueByCountry(frame) ==
    LET keys == GroupKeys(frame, "Country")
    IN  SortValuesDesc([k \in DOMAIN keys |->
            [key |-> keys[k], num |-> MaskedRevenue(frame, InGroup(frame, "Country", keys[k])),
             den |-> 1]])

\* Lines 98 and 99: cost is 60% of the price.
AddProfit(frame) ==
    [i \in DOMAIN frame |->
        LET cost == (frame[i].UnitPrice * 6) \div 10
        IN  WithCol(WithCol(frame[i], "CostPrice", cost),
                    "ProfitMargin", frame[i].UnitPrice - cost)]

\* Line 100.
ProfitByProduct(frame) ==
    HeadN(SortValuesDesc(GroupMean(frame, "Description", "ProfitMargin")), TopN)

\* Lines 105 to 110: per customer, recency in whole days (null when the
\* customer has no dated row), frequency and monetary value; the ten
\* customers of highest monetary value.
Rfm(frame) ==
    LET keys == GroupKeys(frame, "CustomerID")
        last == MaxDate(frame)
        Entry(c) ==
            LET g == RowsWhere(frame, "CustomerID", c)
                own == MaxDate(g)
            IN  [key |-> c,
                 Recency |-> IF own = NaT \/ last = NaT THEN <<>>
                             ELSE <<(last[1] - own[1]) \div TicksPerDay>>,
                 Frequency |-> Len(g),
                 num |-> SumSeq(Column(g, "UnitPrice")), den |-> 1]
    IN  HeadN(SortValuesDesc([k \in DOMAIN keys |-> Entry(keys[k])]), TopN)

\* Line 114 without sort_values.
TopProducts_Unsorted(frame) == HeadN(GroupSum(frame, "Description", "Quantity"), TopN)

\* Line 114.
TopProducts(frame) == HeadN(SortValuesDesc(GroupSum(frame, "Description", "Quantity")), TopN)

\* Line 129.
MonthlySales(frame) == GroupSum(frame, "YearMonth", "Quantity")

\* Line 137.
TopCountries(frame) == HeadN(SortValuesDesc(GroupSum(frame, "Country", "Quantity")), TopN)

\* Lines 147 and 148: the quantity per month, the month as the integer YYYYMM.
DfSales(frame) ==
    LET g == GroupSum(frame, "YearMonth", "Quantity")
    IN  [k \in DOMAIN g |-> [InvoiceDate |-> PeriodToInt(g[k].key), Quantity |-> g[k].num]]

\* Line 157 with range(1, n_months).
FutureMonths_OneShort(sales, n) ==
    LET S == Range(Column(sales, "InvoiceDate"))
        last == CHOOSE x \in S : \A y \in S : x >= y
    IN  [i \in 1..(n - 1) |-> last + i]

\* Line 157.
FutureMonths(sales, n) ==
    LET S == Range(Column(sales, "InvoiceDate"))
        last == CHOOSE x \in S : \A y \in S : x >= y
    IN  [i \in 1..n |-> last + i]

\* Lines 151 to 154: the least-squares line through (InvoiceDate, Quantity),
\* kept as the exact sums that determine it. X is taken relative to its first
\* value, which leaves the fitted line unchanged.
Fit(sales) ==
    LET n == Len(sales)
        x0 == sales[1].InvoiceDate
        dx == [i \in DOMAIN sales |-> sales[i].InvoiceDate - x0]
        y == Column(sales, "Quantity")
        Sx == SumSeq(dx)
        Sy == SumSeq(y)
        Sxx == SumSeq([i \in DOMAIN sales |-> dx[i] * dx[i]])
        Sxy == SumSeq([i \in DOMAIN sales |-> dx[i] * y[i]])
    IN  [n |-> n, x0 |-> x0, Sx |-> Sx, Sy |-> Sy,
         den |-> n * Sxx - Sx * Sx, num |-> n * Sxy - Sx * Sy]

\* model.predict at x, as an exact fraction; one observed month gives the
\* constant line through it.
Predict(m, x) ==
    IF m.den = 0 THEN <<m.Sy, m.n>>
    ELSE <<m.Sy * m.den + m.num * (m.n * (x - m.x0) - m.Sx), m.n * m.den>>

\* Lines 158 and 162.
ForecastFuture(m, future) ==
    [i \in DOMAIN future |-> [InvoiceDate |-> future[i], Sales |-> Predict(m, future[i])]]

\* ------------------------------------------------------------- the state

VARIABLES
    csv,                 \* data.csv
    cache,               \* st.cache_data's entry for load_data(): <<>> or <<frame>>
    loads,               \* how often the body of load_data has run
    loaded,              \* what load_data() returned to the current run
    status,              \* "init" before the first run, then "ok" or "error"
    failed_line,         \* the line whose exception ended the last run, 0 for none
    selected_countries, selected_products, start_date, end_date, n_months,
    df, filtered_df, total_revenue, total_sales, total_customers,
    revenue_by_country, profit_by_product, rfm, top_products, monthly_sales,
    top_countries, df_sales, model, future_months, forecast_future

widgets == <<selected_countries, selected_products, start_date, end_date, n_months>>

\* What a run shows that is computed from the filtered set.
filtered_outputs == <<filtered_df, total_revenue, total_sales, total_customers,
                      revenue_by_country, top_products>>

\* What a run shows that is computed from the whole cleaned set.
global_outputs == <<profit_by_product, rfm, monthly_sales, top_countries,
                    df_sales, model, future_months, forecast_future>>

outputs == <<df, filtered_outputs, global_outputs>>

vars == <<csv, cache, loads, loaded, status, failed_line, widgets, outputs>>

\* A cache that hands out the stored object itself: the script's new columns
\* land in the entry.
CacheAfterRun_SharedObject(stored, mutated) == mutated

\* @st.cache_data keeps a serialized copy of the value and hands every call a
\* copy of its own: what the script does to the frame it got leaves the
\* entry as it was.
CacheAfterRun(stored, mutated) == stored

Init ==
    /\ csv \in Csvs
    /\ cache = <<>>
    /\ loads = 0
    /\ loaded = <<>>
    /\ status = "init"
    /\ failed_line = 0
    /\ selected_countries = {}
    /\ selected_products = {}
    /\ start_date = NaT
    /\ end_date = NaT
    /\ n_months = SliderDefault
    /\ df = <<>>
    /\ filtered_df = <<>>
    /\ total_revenue = 0
    /\ total_sales = 0
    /\ total_customers = 0
    /\ revenue_by_country = <<>>
    /\ profit_by_product = <<>>
    /\ rfm = <<>>
    /\ top_products = <<>>
    /\ monthly_sales = <<>>
    /\ top_countries = <<>>
    /\ df_sales = <<>>
    /\ model = <<>>
    /\ future_months = <<>>
    /\ forecast_future = <<>>

\* One run of the script, from line 23 on, on the frame load_data() returned
\* and with the widgets at the given values. An exception ends the run at
\* its line; what the lines behind it would have shown is absent (<<>>, 0).
\*   line 33: st.multiselect raises when its default, United Kingdom, is not
\*            one of the options;
\*   line 74: on an empty filtered set groupby(...).apply(...) returns an
\*            empty frame that has no column 0, and the chain reset_index /
\*            rename / sort_values(by="Total Revenue") raises.
\* A filtered set that is not empty holds a dated row, so the regression of
\* line 154 has a sample whenever the run gets there.
Run(frame, countries, products, start, end, n) ==
    /\ loaded' = frame
    /\ failed_line' =
          IF UnitedKingdom \notin Range(CountryOptions(frame)) THEN 33
          ELSE IF ApplyFilters(frame, countries, products, start, end) = <<>> THEN 74
          ELSE 0
    /\ status' = IF failed_line' = 0 THEN "ok" ELSE "error"
    \* lines 33 to 48: the sidebar
    /\ selected_countries' = IF failed_line' # 33 THEN countries ELSE selected_countries
    /\ selected_products' = IF failed_line' # 33 THEN products ELSE selected_products
    /\ start_date' = IF failed_line' # 33 THEN start ELSE start_date
    /\ end_date' = IF failed_line' # 33 THEN end ELSE end_date
    \* lines 51 to 68: the filter and the KPIs
    /\ filtered_df' = IF failed_line' # 33
                      THEN ApplyFilters(frame, countries, products, start, end) ELSE <<>>
    /\ total_revenue' = Revenue(filtered_df')
    /\ total_sales' = SumSeq(Column(filtered_df', "Quantity"))
    /\ total_customers' = NUnique(filtered_df', "CustomerID")
    \* lines 74 to 175
    /\ revenue_by_country' = IF failed_line' = 0 THEN RevenueByCountry(filtered_df') ELSE <<>>
    /\ df' = IF failed_line' = 0 THEN AddProfit(frame) ELSE frame
    /\ profit_by_product' = IF failed_line' = 0 THEN ProfitByProduct(df') ELSE <<>>
    /\ rfm' = IF failed_line' = 0 THEN Rfm(df') ELSE <<>>
    /\ top_products' = IF failed_line' = 0 THEN TopProducts(filtered_df') ELSE <<>>
    /\ monthly_sales' = IF failed_line' = 0 THEN MonthlySales(df') ELSE <<>>
    /\ top_countries' = IF failed_line' = 0 THEN TopCountries(df') ELSE <<>>
    /\ n_months' = n
    /\ df_sales' = IF failed_line' = 0 THEN DfSales(df') ELSE <<>>
    /\ model' = IF failed_line' = 0 THEN <<Fit(df_sales')>> ELSE <<>>
    /\ future_months' = IF failed_line' = 0 THEN FutureMonths(df_sales', n) ELSE <<>>
    /\ forecast_future' = IF failed_line' = 0
                          THEN ForecastFuture(model'[1], future_months') ELSE <<>>
    \* the cache entry once the script has worked on the frame it got
    /\ cache' = <<CacheAfterRun(frame, df')>>
    /\ UNCHANGED csv

\* The first run of a session: load_data() runs its body and the widgets
\* take their defaults.
FirstRun ==
    /\ status = "init"
    /\ cache = <<>>
    /\ loads' = loads + 1
    /\ LET frame == LoadDataBody(csv)
       IN  Run(frame, {UnitedKingdom}, DefaultProductSelection(frame),
               DateOf(MinDate(frame)), DateOf(MaxDate(frame)), SliderDefault)

\* A later run: load_data() is served from the cache.
Rerun(countries, products, start, end, n) ==
    /\ status # "init"
    /\ cache # <<>>
    /\ UNCHANGED loads
    /\ Run(cache[1], countries, products, start, end, n)

\* The selections of a multiselect the model tries: all of them when the
\* options are few, else none, all and the default.
Selections(options, default) ==
    IF Len(options) <= MaxEnumOptions THEN SUBSET Range(options)
    ELSE {{}, Range(options), default}

\* The days the model picks range ends from: the days that have a row.
DayChoices(frame) == { ToDate(t) : t \in NotNull(frame, "InvoiceDate") }

SetCountries ==
    /\ status # "init" /\ failed_line # 33
    /\ \E S \in Selections(CountryOptions(loaded), {UnitedKingdom}) :
          /\ S # selected_countries
          /\ Rerun(S, selected_products, start_date, end_date, n_months)

SetProducts ==
    /\ status # "init" /\ failed_line # 33
    /\ \E S \in Selections(ProductOptions(loaded), DefaultProductSelection(loaded)) :
          /\ S # selected_products
          /\ Rerun(selected_countries, S, start_date, end_date, n_months)

SetDateRange ==
    /\ status # "init" /\ failed_line # 33
    /\ \E s, e \in DayChoices(loaded) :
          /\ s <= e
          /\ <<s>> # start_date \/ <<e>> # end_date
          /\ Rerun(selected_countries, selected_products, <<s>>, <<e>>, n_months)

\* The slider is on the page only when the last run got to line 144.
SetNMonths ==
    /\ status = "ok"
    /\ \E n \in SliderValues :
          /\ n # n_months
          /\ Rerun(selected_countries, selected_products, start_date, end_date, n)

\* "Rerun" in the app's menu: the script again, the widgets as they are.
RerunSame ==
    Rerun(selected_countries, selected_products, start_date, end_date, n_months)

Next == FirstRun \/ SetCountries \/ SetProducts \/ SetDateRange \/ SetNMonths \/ RerunSame

Spec == Init /\ [][Next]_vars

\* ================================================================ claims

\* The rows of a frame, and its index labels.
Rows(frame) == Range(frame)
Labels(frame) == { frame[i].idx : i \in DOMAIN frame }

RECURSIVE SumOver(_, _, _)
\* The sum of column col over the rows of frame at the positions I.
SumOver(frame, I, col) ==
    IF I = {} THEN 0
    ELSE LET i == CHOOSE j \in I : TRUE
         IN  frame[i][col] + SumOver(frame, I \ {i}, col)

\* The positions of the rows of a group.
Positions(frame, col, v) == { i \in DOMAIN frame : Cell(frame[i], col) = <<v>> }

Started == status # "init"

\* ---- C1 ----------------------------------------------------------------
\* The three conditions of the cleaning step on a row of data.csv.
Clean(raw) == raw.CustomerID # <<>> /\ raw.Quantity > 0 /\ raw.UnitPrice > 0

\* C1: the frame load_data returns holds exactly the rows of data.csv that
\* have a CustomerID, Quantity > 0 and UnitPrice > 0: every such row once,
\* with its cells as read, and no other row.
C1_CleanedExactly ==
    Started =>
        /\ Labels(loaded) = { i - 1 : i \in { j \in DOMAIN csv : Clean(csv[j]) } }
        /\ Cardinality(Labels(loaded)) = Len(loaded)
        /\ \A r \in Rows(loaded) :
              /\ r.CustomerID # <<>> /\ r.Quantity > 0 /\ r.UnitPrice > 0
              /\ \A c \in {"InvoiceNo", "Description", "Quantity", "UnitPrice",
                           "CustomerID", "Country"} : r[c] = csv[r.idx + 1][c]

\* C1's case: load_data has kept a row and dropped one of each kind.
C1_Witness ==
    /\ Started
    /\ loaded # <<>>
    /\ \E i \in DOMAIN csv : csv[i].CustomerID = <<>>
    /\ \E i \in DOMAIN csv : csv[i].CustomerID # <<>> /\ csv[i].Quantity <= 0
    /\ \E i \in DOMAIN csv : csv[i].CustomerID # <<>> /\ csv[i].UnitPrice <= 0

\* ---- C2 ----------------------------------------------------------------
\* A row's timestamp lies between the selected ends as the filter takes them.
InSelectedRange(r) ==
    /\ r.InvoiceDate # NaT /\ start_date # NaT /\ end_date # NaT
    /\ ToDatetime(start_date[1]) <= r.InvoiceDate[1]
    /\ r.InvoiceDate[1] <= ToDatetime(end_date[1])

GroupTotal(frame, col, v, val) ==
    [num |-> SumOver(frame, Positions(frame, col, v), val), den |-> 1]
GroupAverage(frame, col, v, val) ==
    [num |-> SumOver(frame, Positions(frame, col, v), val),
     den |-> Cardinality(Positions(frame, col, v))]

\* A listing is the top TopN of the groups K valued by V: as many entries as
\* there are groups, up to TopN; each entry a group of its own with its value;
\* values not increasing; no group left out valued above a listed one.
IsTopN(top, K, V(_)) ==
    /\ Len(top) = Min(TopN, Cardinality(K))
    /\ \A i \in DOMAIN top :
          /\ top[i].key \in K
          /\ top[i].num * V(top[i].key).den = V(top[i].key).num * top[i].den
    /\ \A i, j \in DOMAIN top : i < j => top[i].key # top[j].key /\ ~Less(top[i], top[j])
    /\ \A k \in K \ { top[i].key : i \in DOMAIN top } :
          \A i \in DOMAIN top : ~Less(top[i], V(k))

\* C3: each top-10 aggregation lists at most 10 groups in non-increasing
\* order of the aggregated value, leaves out no group valued above a listed
\* one, and lists every group when there are fewer than 10.
C3_TopTenSorted ==
    status = "ok" =>
        /\ LET V(k) == GroupTotal(filtered_df, "Description", k, "Quantity")
           IN  IsTopN(top_products, NotNull(filtered_df, "Description"), V)
        /\ LET V(k) == GroupTotal(loaded, "Country", k, "Quantity")
           IN  IsTopN(top_countries, NotNull(loaded, "Country"), V)
        /\ LET V(k) == GroupAverage(df, "Description", k, "ProfitMargin")
           IN  IsTopN(profit_by_product, NotNull(loaded, "Description"), V)

\* C3's case: more than TopN products and countries, a product left out that
\* is valued below the last one listed, and a listing that is not in key order.
C3_Witness ==
    /\ status = "ok"
    /\ Cardinality(NotNull(filtered_df, "Description")) > TopN
    /\ Cardinality(NotNull(loaded, "Country")) > TopN
    /\ Len(top_products) = TopN /\ Len(top_countries) = TopN
    /\ \E k \in NotNull(filtered_df, "Description") \ { top_products[i].key : i \in DOMAIN top_products } :
          Less(GroupTotal(filtered_df, "Description", k, "Quantity"), top_products[TopN])
    /\ \E i, j \in DOMAIN top_products : i < j /\ top_products[i].key > top_products[j].key

\* ---- C4 ----------------------------------------------------------------
\* C4: the revenue breakdown has one entry for every country that has a
\* filtered row and for no other; the entry is the sum of Quantity x
\* UnitPrice over the filtered rows of the country; the entries add up to the
\* Total Revenue KPI.
C4_RevenueByCountry ==
    status = "ok" =>
        /\ { revenue_by_country[i].key : i \in DOMAIN revenue_by_country }
              = NotNull(filtered_df, "Country")
        /\ Len(revenue_by_country) = Cardinality(NotNull(filtered_df, "Country"))
        /\ \A i \in DOMAIN revenue_by_country :
              LET P == Positions(filtered_df, "Country", revenue_by_country[i].key)
                  amount == [j \in DOMAIN filtered_df |->
                                [v |-> filtered_df[j].Quantity * filtered_df[j].UnitPrice]]
              IN  revenue_by_country[i].num = SumOver(amount, P, "v")
        /\ SumSeq(Column(revenue_by_country, "num")) = total_revenue

\* C4's case: a breakdown over several countries, one of them with several
\* filtered rows.
C4_Witness ==
    /\ status = "ok"
    /\ Len(revenue_by_country) >= 2
    /\ \E i \in DOMAIN revenue_by_country :
          Cardinality(Positions(filtered_df, "Country", revenue_by_country[i].key)) >= 2
    /\ total_revenue > 0

\* ---- C5 ----------------------------------------------------------------
\* C5: the forecast has exactly n_months points, one per future x-value; the
\* future x-values are pairwise distinct and all above the encoding of the
\* last observed month.
C5_ForecastLength ==
    status = "ok" =>
        /\ n_months \in SliderValues
        /\ Len(forecast_future) = n_months
        /\ Len(future_months) = n_months
        /\ \A i \in DOMAIN forecast_future : forecast_future[i].InvoiceDate = future_months[i]
        /\ \A i, j \in DOMAIN future_months : i # j => future_months[i] # future_months[j]
        /\ \A i \in DOMAIN future_months :
              \A k \in DOMAIN df_sales : future_months[i] > df_sales[k].InvoiceDate

\* C5's case: the longest forecast, over several observed months.
C5_Witness ==
    /\ status = "ok"
    /\ n_months = SliderMax
    /\ Len(df_sales) >= 2
    /\ Len(forecast_future) = SliderMax
\* ---- C6 ----------------------------------------------------------------
\* The positions of the rows of data.csv whose InvoiceDate does not parse.
Unparsed == { i \in DOMAIN csv : ParseDate(csv[i].InvoiceDate) = NaT }

\* The positions of the dated rows of a frame.
Dated(frame) == { i \in DOMAIN frame : frame[i].InvoiceDate # NaT }

\* C6 as stated, on the runs that complete: a row whose InvoiceDate cannot be
\* parsed is absent from the frame load_data returns, and the top countries
\* are those of the dated rows alone.
C6_UnparsedDateDropped ==
    status = "ok" =>
        /\ \A i \in Unparsed : (i - 1) \notin Labels(loaded)
        /\ \A e \in Rows(top_countries) :
              e.num = SumOver(loaded, Positions(loaded, "Country", e.key) \cap Dated(loaded),
                              "Quantity")

\* C6 amended: a row whose InvoiceDate cannot be parsed gets a null date and a
\* null YearMonth and is not dropped for it: it is in the frame load_data
\* returns exactly when it has a CustomerID, Quantity > 0 and UnitPrice > 0.
\* It is in no filtered set and is left out of the monthly trend and of the
\* months the forecast is fitted to; it is counted in the top countries, the
\* profit-margin ranking and the RFM table.
C6_UnparsedDateKept ==
    Started =>
        /\ \A i \in Unparsed :
              /\ ((i - 1) \in Labels(loaded)) <=> Clean(csv[i])
              /\ \A r \in Rows(loaded) :
                    r.idx = i - 1 => r.InvoiceDate = NaT /\ r.YearMonth = NaT
              /\ (i - 1) \notin Labels(filtered_df)
        /\ status = "ok" =>
              /\ SumSeq(Column(monthly_sales, "num")) = SumOver(loaded, Dated(loaded), "Quantity")
              /\ SumSeq(Column(df_sales, "Quantity")) = SumOver(loaded, Dated(loaded), "Quantity")
              /\ \A e \in Rows(top_countries) :
                    e.num = SumOver(loaded, Positions(loaded, "Country", e.key), "Quantity")
              /\ \A e \in Rows(profit_by_product) :
                    /\ e.num = SumOver(df, Positions(df, "Description", e.key), "ProfitMargin")
                    /\ e.den = Cardinality(Positions(loaded, "Description", e.key))
              /\ \A e \in Rows(rfm) :
                    /\ e.Frequency = Cardinality(Positions(loaded, "CustomerID", e.key))
                    /\ e.num = SumOver(loaded, Positions(loaded, "CustomerID", e.key), "UnitPrice")

\* C6's case: a run that completed on a frame holding an undated row whose
\* country, product and customer are listed.
C6_Witness ==
    /\ status = "ok"
    /\ \E r \in Rows(loaded) :
          /\ r.InvoiceDate = NaT
          /\ r.Country \in { e.key : e \in Rows(top_countries) }
          /\ r.Description \in { e.key : e \in Rows(profit_by_product) }
          /\ r.CustomerID[1] \in { e.key : e \in Rows(rfm) }

\* ---- C7 ----------------------------------------------------------------
\* The last observed month.
LastPeriod == CHOOSE p \in NotNull(loaded, "YearMonth") :
                  \A q \in NotNull(loaded, "YearMonth") : q <= p

\* C7 as stated: the i-th future point is at the YYYYMM encoding of the month
\* i months after the last observed one, and equal gaps between observed
\* months are equal gaps between their encodings.
C7_FutureMonthsAreCalendarMonths ==
    status = "ok" =>
        /\ \A i \in DOMAIN future_months : future_months[i] = PeriodToInt(LastPeriod + i)
        /\ \A a, b, c, d \in NotNull(loaded, "YearMonth") :
              (b - a = d - c) => (PeriodToInt(b) - PeriodToInt(a) = PeriodToInt(d) - PeriodToInt(c))

\* ---- C8 ----------------------------------------------------------------
\* The columns of the frame load_data builds.
LoadedColumns == {"idx", "InvoiceNo", "Description", "Quantity", "InvoiceDate",
                  "UnitPrice", "CustomerID", "Country", "YearMonth"}

\* C8: the body of load_data runs at most once; every run receives the same
\* cleaned frame, without the columns earlier runs added to theirs; a run
\* with the widgets as they were shows what the run before it showed.
C8_LoadOnceSameFrame ==
    /\ [](/\ loads <= 1
          /\ Started =>
                /\ loads = 1
                /\ loaded = LoadDataBody(csv)
                /\ cache = <<loaded>>
                /\ \A r \in Rows(loaded) : DOMAIN r = LoadedColumns)
    /\ [][(Started /\ widgets' = widgets) =>
             (outputs' = outputs /\ failed_line' = failed_line /\ loaded' = loaded)]_vars

\* C8's case: a run that added its columns to the frame it got, after the
\* selections and the slider had been changed.
C8_Witness ==
    /\ status = "ok"
    /\ loads = 1
    /\ df # loaded
    /\ \E r \in Rows(df) : "CostPrice" \in DOMAIN r
    /\ selected_countries # {UnitedKingdom}
    /\ n_months # SliderDefault

\* ---- C9 ----------------------------------------------------------------
\* C9 as stated, on the runs that complete: a cleaned row of a selected
\* country and product whose timestamp falls on a day from the selected start
\* date to the selected end date, at any time of day, is in the filtered set.
C9_DateRangeInclusive ==
    status = "ok" =>
        \A r \in Rows(loaded) :
            ( /\ r.Country \in selected_countries
              /\ r.Description \in selected_products
              /\ r.InvoiceDate # NaT
              /\ start_date[1] <= ToDate(r.InvoiceDate[1])
              /\ ToDate(r.InvoiceDate[1]) <= end_date[1] )
            => r \in Rows(filtered_df)

\* ---- C10 ---------------------------------------------------------------
\* C10 as stated: a run that differs from the one before it only in the
\* country, product or date selection shows the same profit-margin ranking,
\* RFM table, monthly trend, top countries and forecast.
C10_FiltersLeaveGlobalOutputs ==
    [][(status = "ok" /\ n_months' = n_months) => global_outputs' = global_outputs]_vars

====
